---- MODULE Spec2Model ----
(***************************************************************************)
(* The XDG strategy of etcetera: base_strategy::Xdg resolves the base      *)
(* directories from the process environment and the home directory, and    *)
(* app_strategy::Xdg appends the application's unixy name to them.          *)
(*                                                                         *)
(* An environment value and a path are sequences of units.  A unit is one  *)
(* of the separator bytes "/" and ":", the byte BadByte (a byte that is    *)
(* not valid UTF-8), or a run of ordinary UTF-8 bytes holding no separator *)
(* (".config", "usr", "a").  PathBuf::from and Path::join never look       *)
(* inside a run, so the unit sequence carries all that the code reads.     *)
(* Paths are Unix paths: a path is absolute when it starts with "/".        *)
(***************************************************************************)
EXTENDS Naturals, Sequences, FiniteSets, TLC

VARIABLES
    env,            \* the process environment: a map from the names that are set to their values
    platform_home,  \* what crate::home_dir() answers in this process
    base,           \* the base_strategy::Xdg instance the program holds, if any
    app,            \* the app_strategy::Xdg instance the program holds, if any
    ret,            \* the operation performed last and what it returned
    changed         \* the environment was modified after the newest instance was built

vars == <<env, platform_home, base, app, ret, changed>>

-----------------------------------------------------------------------------
(* Bounds of the model. *)

\* how many environment variables are set at once under Spec
MaxSetVars == 1

\* how many units an environment value has at most under SpecPure
MaxLen == 3

-----------------------------------------------------------------------------
(* Rust's Option and Result. *)

None == [some |-> FALSE]

Some(v) == [some |-> TRUE, val |-> v]

Ok(v) == [ok |-> TRUE, val |-> v]

Err(e) == [ok |-> FALSE, err |-> e]

\* what a call leaves behind when it unwinds instead of returning
Panic == [panic |-> TRUE]

\* the error crate::home_dir() reports
HomeDirError == "HomeDirError"

-----------------------------------------------------------------------------
(* The environment and its values. *)

BadByte == "<FF>"

XdgVars == {"XDG_CONFIG_HOME", "XDG_DATA_HOME", "XDG_CACHE_HOME", "XDG_STATE_HOME",
            "XDG_RUNTIME_DIR", "XDG_BIN_HOME", "XDG_DATA_DIRS", "XDG_CONFIG_DIRS"}

\* the values a directory variable takes under Spec: empty, relative,
\* absolute, and absolute but not valid UTF-8
DirValues == { <<>>,
               <<"a">>,
               <<"/", "a">>,
               <<"/", BadByte>> }

\* the values a list variable takes under Spec: empty, an absolute and a
\* relative directory, and a list that is not valid UTF-8
ListValues == { <<>>,
                <<"/", "a", ":", "b">>,
                <<"/", "a", ":", BadByte>> }

ListVars == {"XDG_DATA_DIRS", "XDG_CONFIG_DIRS"}

ValuesFor(name) == IF name \in ListVars THEN ListValues ELSE DirValues

Alphabet == {"/", ":", "a", BadByte}

\* every value of at most n units
Strings(n) == UNION { [1..k -> Alphabet] : k \in 0..n }

\* the home directories the platform may report, and its failure
Homes == { <<"/", "h">>, <<"/", "r", "/">> }

\* what AppStrategyArgs::unixy_name() may hand to the constructor
UnixyNames == { <<"frobnicator-plus">>, <<"a">> }

\* std::env::set_var
set_var(e, name, value) ==
    [n \in DOMAIN e \cup {name} |-> IF n = name THEN value ELSE e[n]]

\* std::env::remove_var
remove_var(e, name) == [n \in DOMAIN e \ {name} |-> e[n]]

IsUnicode(s) == \A i \in 1..Len(s) : s[i] # BadByte

\* std::env::var: Err(NotPresent) when unset, Err(NotUnicode) when the value
\* is not valid Unicode, Ok(the value as a String) otherwise
std_env_var(e, name) ==
    IF name \notin DOMAIN e THEN Err("NotPresent")
    ELSE IF ~IsUnicode(e[name]) THEN Err("NotUnicode")
    ELSE Ok(e[name])

-----------------------------------------------------------------------------
(* std::path on Unix. *)

\* PathBuf::from(String): the same bytes
PathBuf_from(s) == s

\* Path::is_absolute: the path has a root
is_absolute(path) == Len(path) > 0 /\ path[1] = "/"

\* Path::join (PathBuf::push): an absolute argument replaces the path; else a
\* separator is added unless the path is empty or already ends in one
join(self, path) ==
    IF is_absolute(path) THEN path
    ELSE IF Len(self) > 0 /\ self[Len(self)] # "/" THEN self \o <<"/">> \o path
    ELSE self \o path

FirstIndex(s, sep) == CHOOSE i \in 1..Len(s) : s[i] = sep /\ \A j \in 1..(i-1) : s[j] # sep

\* str::split(sep): the pieces between the separators, in order
RECURSIVE split(_, _)
split(s, sep) ==
    IF \A i \in 1..Len(s) : s[i] # sep THEN <<s>>
    ELSE LET i == FirstIndex(s, sep)
         IN  <<SubSeq(s, 1, i - 1)>> \o split(SubSeq(s, i + 1, Len(s)), sep)

\* Iterator::map(f).collect() over the pieces, with f = PathBuf::from
map_PathBuf_from(pieces) == [i \in 1..Len(pieces) |-> PathBuf_from(pieces[i])]

-----------------------------------------------------------------------------
(* base_strategy::Xdg *)

\* struct Xdg { home_dir }
BaseXdg(h) == [home_dir |-> h]

\* env_var_or_none without the test that the path is absolute
env_var_or_none_unchecked(e, env_var) ==
    LET r == std_env_var(e, env_var)
    IN  IF ~r.ok THEN None ELSE Some(PathBuf_from(r.val))

env_var_or_none(e, env_var) ==
    LET r == std_env_var(e, env_var)
    IN  IF ~r.ok THEN None
        ELSE LET path == PathBuf_from(r.val)
             IN  IF is_absolute(path) THEN Some(path) ELSE None

env_var_or_default(self, e, env_var, default) ==
    LET o == env_var_or_none(e, env_var)
    IN  IF o.some THEN o.val ELSE join(self.home_dir, default)

base_bin_dir(self, e) == env_var_or_default(self, e, "XDG_BIN_HOME", <<".local", "/", "bin">>)

DefaultDataDirs == <<"/", "usr", "/", "local", "/", "share", "/", ":", "/", "usr", "/", "share", "/">>

DefaultConfigDirs == <<"/", "etc", "/", "xdg">>

\* data_dirs keeping only the absolute segments, as the single-path variables do
base_data_dirs_absolute_only(e) ==
    LET r == std_env_var(e, "XDG_DATA_DIRS")
    IN  SelectSeq(map_PathBuf_from(split(IF r.ok THEN r.val ELSE DefaultDataDirs, ":")),
                  is_absolute)

base_data_dirs(e) ==
    LET r == std_env_var(e, "XDG_DATA_DIRS")
    IN  map_PathBuf_from(split(IF r.ok THEN r.val ELSE DefaultDataDirs, ":"))

base_config_dirs(e) ==
    LET r == std_env_var(e, "XDG_CONFIG_DIRS")
    IN  map_PathBuf_from(split(IF r.ok THEN r.val ELSE DefaultConfigDirs, ":"))

\* crate::home_dir()
crate_home_dir == platform_home

\* new falling back to an empty home directory instead of failing
base_new_defaulting ==
    LET h == crate_home_dir
    IN  IF h.ok THEN Ok(BaseXdg(h.val)) ELSE Ok(BaseXdg(<<>>))

base_new ==
    LET h == crate_home_dir
    IN  IF h.ok THEN Ok(BaseXdg(h.val)) ELSE Err(h.err)

base_home_dir(self) == self.home_dir

base_config_dir(self, e) == env_var_or_default(self, e, "XDG_CONFIG_HOME", <<".config", "/">>)

base_data_dir(self, e) ==
    env_var_or_default(self, e, "XDG_DATA_HOME", <<".local", "/", "share", "/">>)

base_cache_dir(self, e) == env_var_or_default(self, e, "XDG_CACHE_HOME", <<".cache", "/">>)

\* state_dir without a default, like runtime_dir
base_state_dir_no_default(self, e) == env_var_or_none(e, "XDG_STATE_HOME")

base_state_dir(self, e) ==
    Some(env_var_or_default(self, e, "XDG_STATE_HOME", <<".local", "/", "state", "/">>))

base_runtime_dir(self, e) == env_var_or_none(e, "XDG_RUNTIME_DIR")

-----------------------------------------------------------------------------
(* app_strategy::Xdg *)

\* struct Xdg { base_strategy, unixy_name }
AppXdg(b, n) == [base_strategy |-> b, unixy_name |-> n]

\* bin_dir namespaced like the other directories
app_bin_dir_namespaced(self, e) == join(base_bin_dir(self.base_strategy, e), self.unixy_name)

app_bin_dir(self, e) == base_bin_dir(self.base_strategy, e)

app_data_dirs(e) == base_data_dirs(e)

app_config_dirs(e) == base_config_dirs(e)

app_new(unixy_name) ==
    LET b == base_new
    IN  IF b.ok THEN Ok(AppXdg(b.val, unixy_name)) ELSE Err(b.err)

app_home_dir(self) == base_home_dir(self.base_strategy)

app_config_dir(self, e) == join(base_config_dir(self.base_strategy, e), self.unixy_name)

app_data_dir(self, e) == join(base_data_dir(self.base_strategy, e), self.unixy_name)

\* cache_dir handing back the base directory
app_cache_dir_unjoined(self, e) == base_cache_dir(self.base_strategy, e)

app_cache_dir(self, e) == join(base_cache_dir(self.base_strategy, e), self.unixy_name)

\* Option::unwrap panics on None
app_state_dir(self, e) ==
    LET s == base_state_dir(self.base_strategy, e)
    IN  IF s.some THEN Some(join(s.val, self.unixy_name)) ELSE Panic

app_runtime_dir(self, e) ==
    LET r == base_runtime_dir(self.base_strategy, e)
    IN  IF r.some THEN Some(join(r.val, self.unixy_name)) ELSE None

-----------------------------------------------------------------------------
(* The program: the environment is set and cleared by the process, the two  *)
(* constructors run at most once each, and every accessor may be called on  *)
(* an instance that exists.  ret records the last operation and its result. *)

EmptyEnv == [n \in {} |-> <<>>]

Start == [op |-> "start", out |-> None]

Returned(op, out) == [op |-> op, out |-> out]

Init ==
    /\ env = EmptyEnv
    /\ platform_home \in {Ok(h) : h \in Homes} \cup {Err(HomeDirError)}
    /\ base = None
    /\ app = None
    /\ ret = Start
    /\ changed = FALSE

\* the environment changes under a live instance
EnvStep(e) ==
    /\ env' = e
    /\ changed' = (changed \/ (e # env /\ (base.some \/ app.some)))
    /\ UNCHANGED <<platform_home, base, app>>

SetVar ==
    \E name \in XdgVars :
      \E value \in ValuesFor(name) :
        /\ Cardinality(DOMAIN env \cup {name}) <= MaxSetVars
        /\ EnvStep(set_var(env, name, value))
        /\ ret' = Returned("set_var", None)

RemoveVar ==
    \E name \in XdgVars :
        /\ EnvStep(remove_var(env, name))
        /\ ret' = Returned("remove_var", None)

BaseNew ==
    /\ ~base.some
    /\ LET r == base_new
       IN  /\ base' = IF r.ok THEN Some(r.val) ELSE base
           /\ ret' = Returned("base.new", r)
    /\ changed' = FALSE
    /\ UNCHANGED <<env, platform_home, app>>

AppNew ==
    /\ ~app.some
    /\ \E unixy_name \in UnixyNames :
        LET r == app_new(unixy_name)
        IN  /\ app' = IF r.ok THEN Some(r.val) ELSE app
            /\ ret' = Returned("app.new", r)
    /\ changed' = FALSE
    /\ UNCHANGED <<env, platform_home, base>>

\* an accessor that keeps what it resolved in the instance
Call_caching(op, out) ==
    /\ ret' = Returned(op, out)
    /\ base' = IF op = "base.config_dir" THEN Some(BaseXdg(out)) ELSE base
    /\ UNCHANGED <<env, platform_home, app, changed>>

\* an accessor takes &self and reads the environment: it returns and writes nothing
Call(op, out) ==
    /\ ret' = Returned(op, out)
    /\ UNCHANGED <<env, platform_home, base, app, changed>>

BaseHomeDir == base.some /\ Call("base.home_dir", base_home_dir(base.val))

BaseConfigDir == base.some /\ Call("base.config_dir", base_config_dir(base.val, env))

BaseDataDir == base.some /\ Call("base.data_dir", base_data_dir(base.val, env))

BaseCacheDir == base.some /\ Call("base.cache_dir", base_cache_dir(base.val, env))

BaseStateDir == base.some /\ Call("base.state_dir", base_state_dir(base.val, env))

BaseRuntimeDir == base.some /\ Call("base.runtime_dir", base_runtime_dir(base.val, env))

BaseBinDir == base.some /\ Call("base.bin_dir", base_bin_dir(base.val, env))

\* data_dirs and config_dirs are associated functions: no instance is needed
BaseDataDirs == Call("base.data_dirs", base_data_dirs(env))

BaseConfigDirs == Call("base.config_dirs", base_config_dirs(env))

AppHomeDir == app.some /\ Call("app.home_dir", app_home_dir(app.val))

AppConfigDir == app.some /\ Call("app.config_dir", app_config_dir(app.val, env))

AppDataDir == app.some /\ Call("app.data_dir", app_data_dir(app.val, env))

AppCacheDir == app.some /\ Call("app.cache_dir", app_cache_dir(app.val, env))

AppStateDir == app.some /\ Call("app.state_dir", app_state_dir(app.val, env))

AppRuntimeDir == app.some /\ Call("app.runtime_dir", app_runtime_dir(app.val, env))

AppBinDir == app.some /\ Call("app.bin_dir", app_bin_dir(app.val, env))

AppDataDirs == Call("app.data_dirs", app_data_dirs(env))

AppConfigDirs == Call("app.config_dirs", app_config_dirs(env))

BaseCalls ==
    \/ BaseHomeDir
    \/ BaseConfigDir
    \/ BaseDataDir
    \/ BaseCacheDir
    \/ BaseStateDir
    \/ BaseRuntimeDir
    \/ BaseBinDir
    \/ BaseDataDirs
    \/ BaseConfigDirs

AppCalls ==
    \/ AppHomeDir
    \/ AppConfigDir
    \/ AppDataDir
    \/ AppCacheDir
    \/ AppStateDir
    \/ AppRuntimeDir
    \/ AppBinDir
    \/ AppDataDirs
    \/ AppConfigDirs

Next ==
    \/ SetVar
    \/ RemoveVar
    \/ BaseNew
    \/ AppNew
    \/ BaseCalls
    \/ AppCalls

Spec == Init /\ [][Next]_vars

(* The accessors as functions of one environment value: the environment     *)
(* holds at most one variable, set to any value of at most MaxLen units,    *)
(* before the base strategy is built, and the accessors are then applied.   *)

InitPure ==
    /\ env \in {EmptyEnv} \cup
               { set_var(EmptyEnv, name, value) : name \in XdgVars, value \in Strings(MaxLen) }
    /\ platform_home \in {Ok(h) : h \in Homes}
    /\ base = Some(base_new.val)
    /\ app = None
    /\ ret = Start
    /\ changed = FALSE

NextPure == BaseCalls

SpecPure == InitPure /\ [][NextPure]_vars

-----------------------------------------------------------------------------
(* What the properties below are stated with. *)

PlainDirOps == {"base.config_dir", "base.data_dir", "base.cache_dir", "base.bin_dir"}

OptionDirOps == {"base.state_dir", "base.runtime_dir"}

\* the override variable of an accessor
VarOf(op) ==
    CASE op \in {"base.config_dir", "app.config_dir"} -> "XDG_CONFIG_HOME"
      [] op \in {"base.data_dir", "app.data_dir"} -> "XDG_DATA_HOME"
      [] op \in {"base.cache_dir", "app.cache_dir"} -> "XDG_CACHE_HOME"
      [] op \in {"base.state_dir", "app.state_dir"} -> "XDG_STATE_HOME"
      [] op \in {"base.runtime_dir", "app.runtime_dir"} -> "XDG_RUNTIME_DIR"
      [] op \in {"base.bin_dir", "app.bin_dir"} -> "XDG_BIN_HOME"
      [] op \in {"base.data_dirs", "app.data_dirs"} -> "XDG_DATA_DIRS"
      [] op \in {"base.config_dirs", "app.config_dirs"} -> "XDG_CONFIG_DIRS"

\* the documented default of an accessor, relative to the home directory
DocumentedDefault(op) ==
    CASE op = "base.config_dir" -> <<".config", "/">>
      [] op = "base.data_dir" -> <<".local", "/", "share", "/">>
      [] op = "base.cache_dir" -> <<".cache", "/">>
      [] op = "base.state_dir" -> <<".local", "/", "state", "/">>
      [] op = "base.bin_dir" -> <<".local", "/", "bin">>

\* the documented default lists
DocumentedDataDirs == << <<"/", "usr", "/", "local", "/", "share", "/">>, <<"/", "usr", "/", "share", "/">> >>

DocumentedConfigDirs == << <<"/", "etc", "/", "xdg">> >>

\* a path under the home directory
UnderHome(h, rel) == IF h[Len(h)] = "/" THEN h \o rel ELSE h \o <<"/">> \o rel

\* a path with one more segment after it
WithSegment(p, seg) == IF p[Len(p)] = "/" THEN p \o seg ELSE p \o <<"/">> \o seg

Colons(v) == Cardinality({i \in 1..Len(v) : v[i] = ":"})

\* the elements of a list, written one after the other with ":" between them
RECURSIVE Glue(_)
Glue(list) ==
    IF Len(list) = 0 THEN <<>>
    ELSE IF Len(list) = 1 THEN list[1]
    ELSE list[1] \o <<":">> \o Glue(Tail(list))

\* list is v cut at every ":": as many elements as v has colons plus one, none
\* of them holding a colon, and together they spell v
IsSplitOf(list, v) ==
    /\ Len(list) = Colons(v) + 1
    /\ \A i \in 1..Len(list) : Colons(list[i]) = 0
    /\ Glue(list) = v

IsSet(name) == name \in DOMAIN env

-----------------------------------------------------------------------------
C2_RelativeOverrideDiscarded ==
    \A op \in (PlainDirOps \cup OptionDirOps) \ {"base.runtime_dir"} :
        (ret.op = op /\ (IsSet(VarOf(op)) => ~is_absolute(env[VarOf(op)])))
            => LET d == UnderHome(base.val.home_dir, DocumentedDefault(op))
               IN  ret.out = IF op = "base.state_dir" THEN Some(d) ELSE d

C2_Witness ==
    /\ ret.op = "base.state_dir"
    /\ IsSet("XDG_STATE_HOME")
    /\ env["XDG_STATE_HOME"] = <<"a", "/", "a">>
    /\ base.val.home_dir = <<"/", "h">>
    /\ ret.out = Some(<<"/", "h", "/", ".local", "/", "state", "/">>)

(* C3: base runtime_dir returns None when XDG_RUNTIME_DIR is unset, None    *)
(* when it holds a path that is not absolute, Some(value) when it holds an  *)
(* absolute path, and a returned Some always holds the variable's value.    *)
C3_RuntimeDirNoDefault ==
    ret.op = "base.runtime_dir" =>
        /\ ~IsSet("XDG_RUNTIME_DIR") => ret.out = None
        /\ (IsSet("XDG_RUNTIME_DIR") /\ ~is_absolute(env["XDG_RUNTIME_DIR"])) => ret.out = None
        /\ (IsSet("XDG_RUNTIME_DIR") /\ is_absolute(env["XDG_RUNTIME_DIR"]))
               => ret.out = Some(env["XDG_RUNTIME_DIR"])
        /\ ret.out.some => (IsSet("XDG_RUNTIME_DIR") /\ ret.out.val = env["XDG_RUNTIME_DIR"])

(* C4: base state_dir returns Some in every environment, and app state_dir, *)
(* which unwraps it, never panics and returns Some as well.                 *)
C4_StateDirAlwaysPresent ==
    /\ ret.op = "base.state_dir" => ret.out.some
    /\ ret.op = "app.state_dir" => (ret.out # Panic /\ ret.out.some)

C4_Witness ==
    /\ ret.op = "app.state_dir"
    /\ IsSet("XDG_STATE_HOME")
    /\ env["XDG_STATE_HOME"] = <<"a">>
    /\ ret.out.some

(* C5: data_dirs and config_dirs return the documented default list when    *)
(* their variable is unset, and when it is set to a string they return that *)
(* string cut at every ":": the segments in order, one more than there are  *)
(* colons, each as written, relative ones included.                         *)
C5_ListSplitInOrder ==
    /\ ret.op = "base.data_dirs" =>
        /\ ~IsSet("XDG_DATA_DIRS") => ret.out = DocumentedDataDirs
        /\ (IsSet("XDG_DATA_DIRS") /\ IsUnicode(env["XDG_DATA_DIRS"]))
               => IsSplitOf(ret.out, env["XDG_DATA_DIRS"])
    /\ ret.op = "base.config_dirs" =>
        /\ ~IsSet("XDG_CONFIG_DIRS") => ret.out = DocumentedConfigDirs
        /\ (IsSet("XDG_CONFIG_DIRS") /\ IsUnicode(env["XDG_CONFIG_DIRS"]))
               => IsSplitOf(ret.out, env["XDG_CONFIG_DIRS"])

C5_Witness ==
    /\ ret.op = "base.data_dirs"
    /\ IsSet("XDG_DATA_DIRS")
    /\ env["XDG_DATA_DIRS"] = <<"a", ":", "/">>
    /\ ret.out = << <<"a">>, <<"/">> >>

(* C6: whenever XDG_DATA_DIRS or XDG_CONFIG_DIRS is set, to the empty       *)
(* string or to a value that is not valid Unicode included, data_dirs and   *)
(* config_dirs return the list cut from the variable's value and not the    *)
(* default list.                                                            *)
C6_DefaultListOnlyWhenUnset ==
    /\ (ret.op = "base.data_dirs" /\ IsSet("XDG_DATA_DIRS"))
           => IsSplitOf(ret.out, env["XDG_DATA_DIRS"])
    /\ (ret.op = "base.config_dirs" /\ IsSet("XDG_CONFIG_DIRS"))
           => IsSplitOf(ret.out, env["XDG_CONFIG_DIRS"])

(* C7: in every environment and for every unixy_name, app config_dir,      *)
(* data_dir, cache_dir and state_dir are the base accessor's result with    *)
(* unixy_name as one more, last segment, and app runtime_dir is Some of the *)
(* base runtime_dir with that segment exactly when base runtime_dir is      *)
(* Some, and None otherwise.                                                *)
C7_AppJoinsUnixyName ==
    app.some =>
        LET b == app.val.base_strategy
            n == app.val.unixy_name
        IN  /\ ret.op = "app.config_dir" => ret.out = WithSegment(base_config_dir(b, env), n)
            /\ ret.op = "app.data_dir" => ret.out = WithSegment(base_data_dir(b, env), n)
            /\ ret.op = "app.cache_dir" => ret.out = WithSegment(base_cache_dir(b, env), n)
            /\ ret.op = "app.state_dir" =>
                   ret.out = Some(WithSegment(base_state_dir(b, env).val, n))
            /\ ret.op = "app.runtime_dir" =>
                   LET r == base_runtime_dir(b, env)
                   IN  IF r.some THEN ret.out = Some(WithSegment(r.val, n))
                       ELSE ret.out = None

C7_Witness ==
    /\ ret.op = "app.cache_dir"
    /\ IsSet("XDG_CACHE_HOME")
    /\ env["XDG_CACHE_HOME"] = <<"/", "a">>
    /\ ret.out = <<"/", "a", "/", "frobnicator-plus">>

(* C8: app home_dir, bin_dir, data_dirs and config_dirs return what the     *)
(* base operation of the same name returns in the same environment, without *)
(* unixy_name.                                                              *)
C8_AppPassThrough ==
    /\ (app.some /\ ret.op = "app.home_dir") =>
           (ret.out = base_home_dir(app.val.base_strategy) /\ ret.out = platform_home.val)
    /\ (app.some /\ ret.op = "app.bin_dir") => ret.out = base_bin_dir(app.val.base_strategy, env)
    /\ ret.op = "app.data_dirs" => ret.out = base_data_dirs(env)
    /\ ret.op = "app.config_dirs" => ret.out = base_config_dirs(env)

C8_Witness ==
    /\ ret.op = "app.bin_dir"
    /\ app.val.unixy_name = <<"a">>
    /\ ~IsSet("XDG_BIN_HOME")
    /\ ret.out = <<"/", "h", "/", ".local", "/", "bin">>

AccessorOps ==
    {"base.home_dir", "base.config_dir", "base.data_dir", "base.cache_dir", "base.state_dir",
     "base.runtime_dir", "base.bin_dir", "base.data_dirs", "base.config_dirs",
     "app.home_dir", "app.config_dir", "app.data_dir", "app.cache_dir", "app.state_dir",
     "app.runtime_dir", "app.bin_dir", "app.data_dirs", "app.config_dirs"}

\* the accessors that return an Option; the others return a path or a list of paths
OptionOps == {"base.state_dir", "base.runtime_dir", "app.state_dir", "app.runtime_dir"}

(* C9: when the home directory cannot be resolved both constructors return  *)
(* that error and no instance exists; when it can, both constructors        *)
(* succeed in every environment and for every name, and every accessor      *)
(* called afterwards returns a value: an Option that is neither an error    *)
(* nor a panic, a path, or a list of paths.                                 *)
C9_OnlyHomeDirFails ==
    /\ ~platform_home.ok => (base = None /\ app = None)
    /\ ret.op = "base.new" =>
           IF platform_home.ok
           THEN ret.out = Ok(BaseXdg(platform_home.val)) /\ base = Some(ret.out.val)
           ELSE ret.out = Err(platform_home.err)
    /\ ret.op = "app.new" =>
           IF platform_home.ok
           THEN /\ ret.out.ok
                /\ ret.out.val.base_strategy = BaseXdg(platform_home.val)
                /\ ret.out.val.unixy_name \in UnixyNames
                /\ app = Some(ret.out.val)
           ELSE ret.out = Err(platform_home.err)
    /\ ret.op \in OptionOps => (ret.out # Panic /\ ret.out # Err(HomeDirError))
    /\ ret.op \in AccessorOps \ OptionOps => Len(ret.out) > 0

C9_Witness ==
    /\ ret = Returned("app.new", Err(HomeDirError))
    /\ IsSet("XDG_CONFIG_HOME")
    /\ app = None

\* what an accessor resolves to for the instances held and the environment e
Resolved(op, e) ==
    CASE op = "base.home_dir" -> base_home_dir(base.val)
      [] op = "base.config_dir" -> base_config_dir(base.val, e)
      [] op = "base.data_dir" -> base_data_dir(base.val, e)
      [] op = "base.cache_dir" -> base_cache_dir(base.val, e)
      [] op = "base.state_dir" -> base_state_dir(base.val, e)
      [] op = "base.runtime_dir" -> base_runtime_dir(base.val, e)
      [] op = "base.bin_dir" -> base_bin_dir(base.val, e)
      [] op = "base.data_dirs" -> base_data_dirs(e)
      [] op = "base.config_dirs" -> base_config_dirs(e)
      [] op = "app.home_dir" -> app_home_dir(app.val)
      [] op = "app.config_dir" -> app_config_dir(app.val, e)
      [] op = "app.data_dir" -> app_data_dir(app.val, e)
      [] op = "app.cache_dir" -> app_cache_dir(app.val, e)
      [] op = "app.state_dir" -> app_state_dir(app.val, e)
      [] op = "app.runtime_dir" -> app_runtime_dir(app.val, e)
      [] op = "app.bin_dir" -> app_bin_dir(app.val, e)
      [] op = "app.data_dirs" -> app_data_dirs(e)
      [] op = "app.config_dirs" -> app_config_dirs(e)

(* C10: an instance, once built, never changes (home_dir and unixy_name     *)
(* stay as constructed) while the environment is set and cleared around it; *)
(* an accessor call changes neither the environment nor an instance, and    *)
(* returns what the environment of that moment resolves to.                 *)
C10_NothingCachedButHome ==
    [][ /\ base.some => base' = base
        /\ app.some => app' = app
        /\ ret'.op \in AccessorOps =>
               /\ env' = env
               /\ base' = base
               /\ app' = app
               /\ ret'.out = Resolved(ret'.op, env)
      ]_vars

C10_Witness ==
    /\ changed
    /\ ret.op = "base.config_dir"
    /\ IsSet("XDG_CONFIG_HOME")
    /\ ret.out = <<"/", "a">>
    /\ base.val.home_dir = platform_home.val

-----------------------------------------------------------------------------
(* What the accessors do with the values std::env::var refuses: a value     *)
(* that is not valid Unicode is treated like an unset variable, and every   *)
(* value that is valid Unicode is treated as C1, C3 and C6 say.             *)

\* the environment without the variables whose value is not valid Unicode
Readable(e) == [n \in {m \in DOMAIN e : IsUnicode(e[m])} |-> e[n]]

NotUnicodeIsUnset ==
    /\ (ret.op \in AccessorOps /\ ret.op # "base.home_dir" /\ base.some)
           => ret.out = Resolved(ret.op, Readable(env))
    /\ \A op \in PlainDirOps \cup OptionDirOps :
           (ret.op = op /\ IsSet(VarOf(op)) /\ IsUnicode(env[VarOf(op)])
                /\ is_absolute(env[VarOf(op)]))
               => ret.out = IF op \in OptionDirOps THEN Some(env[VarOf(op)])
                            ELSE env[VarOf(op)]
    /\ (ret.op = "base.runtime_dir" /\ ret.out.some)
           => (IsSet("XDG_RUNTIME_DIR") /\ ret.out.val = env["XDG_RUNTIME_DIR"])
    /\ (ret.op = "base.runtime_dir" /\ ~ret.out.some)
           => (IsSet("XDG_RUNTIME_DIR")
                  => (~is_absolute(env["XDG_RUNTIME_DIR"]) \/ ~IsUnicode(env["XDG_RUNTIME_DIR"])))

====
